---- MODULE Spec2Model ----
(***************************************************************************)
(* StringRay async orchestration (src/src/strray/core/orchestration.py):   *)
(* the AsyncCoordinator's workflow store, its scheduling loop              *)
(* (_execute_workflow), the task executor (_execute_task) with timeout and *)
(* retry, and the JSON snapshot written by _save_state.                    *)
(*                                                                         *)
(* Every action is one atomic segment of the asyncio event loop: the code  *)
(* that runs between two suspension points (await gather, await wait_for,  *)
(* await sleep).  time.time() is the logical clock `now`; it advances by   *)
(* one in every segment that stamps it on a workflow or on a task.         *)
(***************************************************************************)
EXTENDS Integers, Sequences, FiniteSets, TLC

\* ---------------------------------------------------------------- bounds
\* the max_retries of the tasks of a workflow is drawn from 0..MaxRetriesBound
MaxRetriesBound == 1
\* the logical clock stops the model at MaxClock
MaxClock == 16

\* ------------------------------------------------------ program constants
\* Optional[float] = None: an unset timestamp (the clock starts at 1)
NoTime == 0

\* Optional[...] = None for result and error
NoneVal == "None"

WorkflowIds == {"w1"}
TaskIds == {"A", "B", "C", "D"}
AgentTypes == {"coder"}
\* the values of the max_concurrent_tasks configuration entry
ConcurrencyCaps == {1, 2}

\* what an agent returns, and the message of the error it raises
AgentResult == "ok"
AgentError == "agent error"
TimedOutMsg == "Task timed out"
NoAgentMsg(agent_type) == "No agent registered for type: " \o agent_type
NoWorkflowMsg(workflow_id) == "Workflow " \o workflow_id \o " does not exist"

VARIABLES
    workflows,             \* self.workflows: workflow id -> Workflow
    agents,                \* self.agents: the registered agent types
    max_concurrent_tasks,  \* self.max_concurrent_tasks
    runs,                  \* the _execute_workflow calls made so far
    orphans,               \* agent calls still running in the executor after their wait_for timed out
    state_file,            \* the content of self.state_file
    now,                   \* time.time()
    conflict_resolution,   \* self.conflict_resolution
    disk,                  \* what the file system does to the next write of the state file
    delegated,             \* the delegate_task call in flight, or the last one
    call                   \* the last call of a public operation and what its caller got

vars == <<workflows, agents, max_concurrent_tasks, runs, orphans, state_file, now,
          conflict_resolution, disk, delegated, call>>

\* ------------------------------------------------------------- data model
\* the members of WorkflowStatus, TaskPriority and ConflictResolutionStrategy
WorkflowStatus == {"PENDING", "RUNNING", "COMPLETED", "FAILED", "CANCELLED"}
TaskPriority == {"LOW", "MEDIUM", "HIGH", "CRITICAL"}
ConflictResolutionStrategy == {"MAJORITY_VOTE", "EXPERT_PRIORITY", "CONSENSUS", "MANUAL_OVERRIDE"}

\* WorkflowStatus(Enum).value
StatusValue(status) ==
    CASE status = "PENDING" -> "pending"
      [] status = "RUNNING" -> "running"
      [] status = "COMPLETED" -> "completed"
      [] status = "FAILED" -> "failed"
      [] status = "CANCELLED" -> "cancelled"

\* TaskPriority(Enum).value
PriorityValue(priority) ==
    CASE priority = "LOW" -> "low"
      [] priority = "MEDIUM" -> "medium"
      [] priority = "HIGH" -> "high"
      [] priority = "CRITICAL" -> "critical"

\* WorkflowTask(id, name, agent_type, priority, dependencies, max_retries)
WorkflowTask(id, name, agent_type, priority, dependencies, max_retries) ==
    [id |-> id, name |-> name, agent_type |-> agent_type, priority |-> priority,
     dependencies |-> dependencies, status |-> "PENDING", result |-> NoneVal,
     error |-> NoneVal, start_time |-> NoTime, end_time |-> NoTime,
     retry_count |-> 0, max_retries |-> max_retries]

\* the empty dict
EmptyDict == [k \in {} |-> NoneVal]

\* Workflow(id, name, metadata) created at time t; `order` is the insertion
\* order of the keys of the tasks dict
Workflow(id, name, metadata, t) ==
    [id |-> id, name |-> name, tasks |-> EmptyDict, order |-> <<>>,
     status |-> "PENDING", created_at |-> t, completed_at |-> NoTime,
     metadata |-> metadata]

\* ------------------------------------------------------------ persistence
\* the dict _save_state builds for one task
TaskData(t) ==
    [id |-> t.id, name |-> t.name, agent_type |-> t.agent_type,
     priority |-> PriorityValue(t.priority), dependencies |-> t.dependencies,
     status |-> StatusValue(t.status), result |-> t.result, error |-> t.error,
     start_time |-> t.start_time, end_time |-> t.end_time,
     retry_count |-> t.retry_count, max_retries |-> t.max_retries]

\* the dict _save_state builds for one workflow
WorkflowData(wf) ==
    [id |-> wf.id, name |-> wf.name, status |-> StatusValue(wf.status),
     created_at |-> wf.created_at, completed_at |-> wf.completed_at,
     metadata |-> wf.metadata,
     tasks |-> [tid \in DOMAIN wf.tasks |-> TaskData(wf.tasks[tid])],
     order |-> wf.order]

\* the state_data document of _save_state, as json.dump writes it
state_data(ws) ==
    [exists |-> TRUE, shape |-> "state",
     workflows |-> [w \in DOMAIN ws |-> WorkflowData(ws[w])]]

\* no file at the configured location
NoFile == [exists |-> FALSE, shape |-> "none", workflows |-> EmptyDict]

\* the file that open(..., "w") has truncated and json.dump has not finished
TruncatedFile == [exists |-> TRUE, shape |-> "not_json", workflows |-> EmptyDict]

\* what the file system may do to a write of the state file: nothing ("ok"),
\* fail os.makedirs, or fail json.dump after open has truncated the file
DiskFaults == {"makedirs", "dump"}

\* an object of the dataclass WorkflowTask; what json.load gives for a task
\* is a dict, whose status is the value string and which has no attributes
IsWorkflowTask(t) == t.status \in WorkflowStatus

\* wf.status.value and the attributes of every task of wf can be read: the
\* status is a member of WorkflowStatus and the tasks are WorkflowTask objects
Intact(wf) ==
    /\ wf.status \in WorkflowStatus
    /\ \A tid \in DOMAIN wf.tasks : IsWorkflowTask(wf.tasks[tid])

\* building state_data reads wf.status.value and the attributes of every task
Serializable(ws) == \A w \in DOMAIN ws : Intact(ws[w])

\* a _save_state whose except clause raises the error again
save_state_reraises(ws, file, fault) ==
    IF fault = "makedirs" THEN [file |-> file, raised |-> "OSError"]
    ELSE IF ~ Serializable(ws) THEN [file |-> file, raised |-> "AttributeError"]
    ELSE IF fault = "dump" THEN [file |-> TruncatedFile, raised |-> "TypeError"]
    ELSE [file |-> state_data(ws), raised |-> NoneVal]

\* _save_state: the content of the state file after the call, and what the
\* call raises to its caller (the except clause logs every Exception)
save_state(ws, file, fault) ==
    IF fault = "makedirs" THEN [file |-> file, raised |-> NoneVal]
    ELSE IF ~ Serializable(ws) THEN [file |-> file, raised |-> NoneVal]
    ELSE IF fault = "dump" THEN [file |-> TruncatedFile, raised |-> NoneVal]
    ELSE [file |-> state_data(ws), raised |-> NoneVal]

\* no delegate_task call has been made: `pc` is where the call stands,
\* `executions` the number of times it has handed agent.execute_task to the
\* executor
NoDelegation == [task |-> NoneVal, agent_type |-> NoneVal, pc |-> "none", executions |-> 0]

\* a call of a public operation: its name, its argument, what it returned
\* and what it raised to its caller
Call(op, args, returned, raised) ==
    [op |-> op, args |-> args, returned |-> returned, raised |-> raised]

\* ------------------------------------------------------------------ Init
\* AsyncCoordinator.__init__ with no state file: empty store, empty registry;
\* strategy is the conflict_resolution entry of the config, fault what the
\* file system does to the writes of the state file
Construct(strategy, fault) ==
    /\ workflows = EmptyDict
    /\ agents = {}
    /\ max_concurrent_tasks \in ConcurrencyCaps
    /\ runs = <<>>
    /\ orphans = 0
    /\ state_file = NoFile
    /\ now = 1
    /\ conflict_resolution = strategy
    /\ disk = fault
    /\ delegated = NoDelegation
    /\ call = Call("__init__", NoFile, NoneVal, NoneVal)

\* the default strategy, a file system that works
Init == Construct("MAJORITY_VOTE", "ok")

\* ------------------------------------------------------- store operations
register_agent(agent_type) ==
    /\ agents' = agents \cup {agent_type}
    /\ UNCHANGED <<workflows, max_concurrent_tasks, runs, orphans, state_file, now,
                 conflict_resolution, disk, delegated, call>>

create_workflow(workflow_id, name, metadata) ==
    /\ now < MaxClock
    /\ LET ws == [w \in DOMAIN workflows \cup {workflow_id} |->
                    IF w = workflow_id THEN Workflow(workflow_id, name, metadata, now)
                    ELSE workflows[w]]
           saved == save_state(ws, state_file, disk)
       IN  /\ workflows' = ws
           /\ state_file' = saved.file
           /\ call' = Call("create_workflow", workflow_id, ws[workflow_id], saved.raised)
    /\ now' = now + 1
    /\ UNCHANGED <<agents, max_concurrent_tasks, runs, orphans, conflict_resolution, disk, delegated>>

\* workflow.tasks[task.id] = task
PutTask(wf, task) ==
    [wf EXCEPT
        !.tasks = [tid \in DOMAIN wf.tasks \cup {task.id} |->
                     IF tid = task.id THEN task ELSE wf.tasks[tid]],
        !.order = IF task.id \in DOMAIN wf.tasks THEN @ ELSE Append(@, task.id)]

\* an add_task that creates the workflow it does not find
add_task_missing_creates(workflow_id, task) ==
    LET ws == [w \in DOMAIN workflows \cup {workflow_id} |->
                 IF w = workflow_id THEN PutTask(Workflow(workflow_id, workflow_id, "meta", now), task)
                 ELSE workflows[w]]
        saved == save_state(ws, state_file, disk)
    IN  /\ workflows' = ws
        /\ state_file' = saved.file
        /\ call' = Call("add_task", workflow_id, NoneVal, saved.raised)

\* add_task on a workflow id that is not in self.workflows: the ValueError
\* of lines 129-130
add_task_missing(workflow_id, task) ==
    /\ workflows' = workflows
    /\ state_file' = state_file
    /\ call' = Call("add_task", workflow_id, NoneVal, NoWorkflowMsg(workflow_id))

add_task(workflow_id, task) ==
    /\ IF workflow_id \notin DOMAIN workflows
       THEN add_task_missing(workflow_id, task)
       ELSE LET ws == [workflows EXCEPT ![workflow_id] = PutTask(@, task)]
                saved == save_state(ws, state_file, disk)
            IN  /\ workflows' = ws
                /\ state_file' = saved.file
                /\ call' = Call("add_task", workflow_id, NoneVal, saved.raised)
    /\ UNCHANGED <<agents, max_concurrent_tasks, runs, orphans, now, conflict_resolution, disk, delegated>>

\* ----------------------------------------------------------- scheduler
Range(seq) == {seq[i] : i \in 1..Len(seq)}

Min(a, b) == IF a <= b THEN a ELSE b

CircularMsg(workflow_id) == "Circular dependency detected in workflow " \o workflow_id

\* a scheduler that only asks whether the dependencies exist
dependencies_satisfied_exists(task, workflow) ==
    \A dep_id \in task.dependencies : dep_id \in DOMAIN workflow.tasks

\* a scheduler that takes a settled dependency, COMPLETED or FAILED, as satisfied
dependencies_satisfied_settled(task, workflow) ==
    \A dep_id \in task.dependencies :
        /\ dep_id \in DOMAIN workflow.tasks
        /\ workflow.tasks[dep_id].status \in {"COMPLETED", "FAILED"}

\* _dependencies_satisfied(task, workflow)
dependencies_satisfied(task, workflow) ==
    \A dep_id \in task.dependencies :
        /\ dep_id \in DOMAIN workflow.tasks
        /\ workflow.tasks[dep_id].status = "COMPLETED"

\* a pass that takes every remaining task as executable
ExecutableTasks_All(workflow, remaining_tasks) == remaining_tasks

\* the executable_tasks list of one pass of the while loop
ExecutableTasks(workflow, remaining_tasks) ==
    SelectSeq(remaining_tasks,
              LAMBDA task_id : dependencies_satisfied(workflow.tasks[task_id], workflow))

\* a scheduler that dispatches one task per pass
BatchTasks_One(executable_tasks, cap) ==
    SubSeq(executable_tasks, 1, Min(Len(executable_tasks), 1))

\* batch_tasks = executable_tasks[:min(len(executable_tasks), max_concurrent_tasks)]
BatchTasks(executable_tasks, cap) ==
    SubSeq(executable_tasks, 1, Min(Len(executable_tasks), cap))

\* the remaining_tasks list after the `for task_id in batch_tasks` removal loop
RemoveSettled(workflow, remaining_tasks, batch_tasks) ==
    SelectSeq(remaining_tasks,
              LAMBDA task_id : ~ (/\ task_id \in Range(batch_tasks)
                                  /\ workflow.tasks[task_id].status \in {"COMPLETED", "FAILED"}))

\* a call of _execute_workflow(workflow_id) that has not run yet
NewRun(workflow_id) ==
    [wf |-> workflow_id, pc |-> "start", remaining |-> <<>>, batch |-> <<>>,
     passes |-> 0, caught |-> NoneVal, raised |-> NoneVal,
     co |-> [t \in TaskIds |-> "none"],
     attempts |-> [t \in TaskIds |-> <<>>]]

\* a completion that forgets the completed_at stamp
CompleteWorkflow_NoStamp(workflow, t) == [workflow EXCEPT !.status = "COMPLETED"]

\* workflow.status = COMPLETED; workflow.completed_at = time.time()
CompleteWorkflow(workflow, t) ==
    [workflow EXCEPT !.status = "COMPLETED", !.completed_at = t]

\* an except branch that stamps the workflow as the loop's end does
FailWorkflow_Stamps(workflow) ==
    [workflow EXCEPT !.status = "FAILED", !.completed_at = workflow.created_at]

\* except Exception as e: workflow.status = FAILED
FailWorkflow(workflow) == [workflow EXCEPT !.status = "FAILED"]

\* a loop that gives the workflow up as soon as one of its tasks is FAILED
PassOutcome_FailFast(workflow, remaining_tasks) ==
    IF \E task_id \in DOMAIN workflow.tasks : workflow.tasks[task_id].status = "FAILED"
    THEN "circular"
    ELSE IF remaining_tasks = <<>> THEN "completed"
    ELSE IF ExecutableTasks(workflow, remaining_tasks) = <<>> THEN "circular"
    ELSE "batch"

\* the search for executable tasks comes to a remaining task that is a dict:
\* reading task.dependencies (or, before it, the status of a dependency that
\* is a dict) raises AttributeError
ReadsDictTask(workflow, remaining_tasks) ==
    \E task_id \in Range(remaining_tasks) : ~ IsWorkflowTask(workflow.tasks[task_id])

AttributeErrorMsg == "'dict' object has no attribute"

\* a loop without the test of line 195: an empty batch is awaited
PassOutcome_NoCycleTest(workflow, remaining_tasks) ==
    IF remaining_tasks = <<>> THEN "completed"
    ELSE IF ReadsDictTask(workflow, remaining_tasks) THEN "attribute_error"
    ELSE "batch"

\* where one turn of `while remaining_tasks:` leads: out of the loop
\* ("completed"), to an AttributeError ("attribute_error"), to the raise of
\* line 196 ("circular"), or to a batch
PassOutcome(workflow, remaining_tasks) ==
    IF remaining_tasks = <<>> THEN "completed"
    ELSE IF ReadsDictTask(workflow, remaining_tasks) THEN "attribute_error"
    ELSE IF ExecutableTasks(workflow, remaining_tasks) = <<>> THEN "circular"
    ELSE "batch"

\* One turn of `while remaining_tasks:` up to its await, or the code after
\* the loop.  r is the run in rs (the runs after this step, but for what the
\* pass changes), wf the workflow object as the segment has left it so far.
scheduling_pass(r, wf, remaining_tasks, rs) ==
    LET w == rs[r].wf
        outcome == PassOutcome(wf, remaining_tasks)
        batch_tasks == BatchTasks(ExecutableTasks(wf, remaining_tasks), max_concurrent_tasks)
        error == IF outcome = "circular" THEN CircularMsg(w) ELSE AttributeErrorMsg
    IN  CASE outcome = "completed" ->
             \* after the loop; finally: _save_state()
             /\ now < MaxClock
             /\ LET ws == [workflows EXCEPT ![w] = CompleteWorkflow(wf, now)]
                    saved == save_state(ws, state_file, disk)
                IN  /\ workflows' = ws
                    /\ state_file' = saved.file
                    /\ runs' = [rs EXCEPT ![r].pc = "returned",
                                          ![r].remaining = remaining_tasks,
                                          ![r].batch = <<>>, ![r].raised = saved.raised]
             /\ now' = now + 1
          [] outcome \in {"circular", "attribute_error"} ->
             \* an exception is raised; the except clause catches it; finally: _save_state()
             /\ LET ws == [workflows EXCEPT ![w] = FailWorkflow(wf)]
                    saved == save_state(ws, state_file, disk)
                IN  /\ workflows' = ws
                    /\ state_file' = saved.file
                    /\ runs' = [rs EXCEPT ![r].pc = "returned",
                                          ![r].remaining = remaining_tasks,
                                          ![r].batch = <<>>, ![r].passes = @ + 1,
                                          ![r].caught = error,
                                          ![r].raised = saved.raised]
             /\ now' = now
          [] outcome = "batch" ->
             \* asyncio.create_task for each task of the batch; await asyncio.gather
             /\ workflows' = [workflows EXCEPT ![w] = wf]
             /\ runs' = [rs EXCEPT ![r].pc = "gather", ![r].remaining = remaining_tasks,
                                   ![r].batch = batch_tasks, ![r].passes = @ + 1,
                                   ![r].co = [t \in TaskIds |->
                                                IF t \in Range(batch_tasks) THEN "ready" ELSE @[t]]]
             /\ UNCHANGED <<state_file, now>>

\* _execute_workflow(workflow_id) up to its first await (or to its return)
execute_workflow(workflow_id) ==
    /\ workflow_id \in DOMAIN workflows
    /\ LET wf == [workflows[workflow_id] EXCEPT !.status = "RUNNING"]
       IN  scheduling_pass(Len(runs) + 1, wf, wf.order, Append(runs, NewRun(workflow_id)))
    /\ UNCHANGED <<agents, max_concurrent_tasks, orphans, conflict_resolution, disk, delegated, call>>

\* a wait that returns as soon as one task of the batch has finished
batch_settled_first(r) ==
    /\ runs[r].pc = "gather"
    /\ \E t \in Range(runs[r].batch) : runs[r].co[t] = "done"
    /\ LET wf == workflows[runs[r].wf]
       IN  scheduling_pass(r, wf, RemoveSettled(wf, runs[r].remaining, runs[r].batch), runs)
    /\ UNCHANGED <<agents, max_concurrent_tasks, orphans, conflict_resolution, disk, delegated, call>>

\* asyncio.gather returns: every task of the batch has finished
batch_settled(r) ==
    /\ runs[r].pc = "gather"
    /\ \A t \in Range(runs[r].batch) : runs[r].co[t] = "done"
    /\ LET wf == workflows[runs[r].wf]
       IN  scheduling_pass(r, wf, RemoveSettled(wf, runs[r].remaining, runs[r].batch), runs)
    /\ UNCHANGED <<agents, max_concurrent_tasks, orphans, conflict_resolution, disk, delegated, call>>

\* ------------------------------------------------------------ executor
\* task.status = RUNNING; task.start_time = time.time()
StartAttempt(task, t) == [task EXCEPT !.status = "RUNNING", !.start_time = t]

\* task.result = result; task.status = COMPLETED; finally: task.end_time
OnResult(task, result, t) ==
    [task |-> [task EXCEPT !.result = result, !.status = "COMPLETED", !.end_time = t],
     pc |-> "done"]

\* a retry test that is off by one: retry_count <= max_retries
OnException_OffByOne(task, msg, t) ==
    LET failed == [task EXCEPT !.error = msg, !.status = "FAILED"]
    IN  IF failed.retry_count <= failed.max_retries
        THEN [task |-> [failed EXCEPT !.retry_count = @ + 1], pc |-> "sleeping"]
        ELSE [task |-> [failed EXCEPT !.end_time = t], pc |-> "done"]

\* a retry logic that counts every failure, also the one it does not retry
OnException_CountsAll(task, msg, t) ==
    LET failed == [task EXCEPT !.error = msg, !.status = "FAILED", !.retry_count = @ + 1]
    IN  IF task.retry_count < task.max_retries
        THEN [task |-> failed, pc |-> "sleeping"]
        ELSE [task |-> [failed EXCEPT !.end_time = t], pc |-> "done"]

\* except Exception as e, with its retry logic; finally: task.end_time
OnException(task, msg, t) ==
    LET failed == [task EXCEPT !.error = msg, !.status = "FAILED"]
    IN  IF failed.retry_count < failed.max_retries
        THEN [task |-> [failed EXCEPT !.retry_count = @ + 1], pc |-> "sleeping"]
        ELSE [task |-> [failed EXCEPT !.end_time = t], pc |-> "done"]

\* a timeout that falls into the retry logic of the general except clause
OnTimeout_Retried(task, t) == OnException(task, TimedOutMsg, t)

\* a timeout that the general except clause records: error = str(e), which is empty
OnTimeout_AsException(task, t) ==
    [task |-> [task EXCEPT !.error = "", !.status = "FAILED", !.end_time = t],
     pc |-> "done"]

\* except asyncio.TimeoutError; finally: task.end_time
OnTimeout(task, t) ==
    [task |-> [task EXCEPT !.error = TimedOutMsg, !.status = "FAILED", !.end_time = t],
     pc |-> "done"]

\* the try block up to the agent call: the agent lookup, then run_in_executor
OnAttempt(task, registered, t) ==
    LET started == StartAttempt(task, t)
    IN  IF started.agent_type \notin registered
        THEN OnException(started, NoAgentMsg(started.agent_type), t)
        ELSE [task |-> started, pc |-> "await_agent"]

\* a store that looks a task up by its id alone, in every workflow
TaskStep_EveryWorkflow(r, task_id, res, outcome) ==
    LET ws == [w \in DOMAIN workflows |->
                 IF task_id \in DOMAIN workflows[w].tasks
                 THEN [workflows[w] EXCEPT !.tasks[task_id] = res.task]
                 ELSE workflows[w]]
    IN  /\ workflows' = ws
        /\ runs' = [runs EXCEPT ![r].co[task_id] = res.pc,
                                ![r].attempts[task_id] =
                                    IF outcome = NoneVal THEN @ ELSE Append(@, outcome)]
        /\ state_file' = IF res.pc = "done" THEN save_state(ws, state_file, disk).file
                          ELSE state_file

\* an _execute_task whose finally block does not call _save_state
TaskStep_NoSave(r, task_id, res, outcome) ==
    LET ws == [workflows EXCEPT ![runs[r].wf].tasks[task_id] = res.task]
    IN  /\ workflows' = ws
        /\ runs' = [runs EXCEPT ![r].co[task_id] = res.pc,
                                ![r].attempts[task_id] =
                                    IF outcome = NoneVal THEN @ ELSE Append(@, outcome)]
        /\ state_file' = state_file

\* the store, the coroutine and the file after a segment of _execute_task
\* of run r on task_id that leaves it as res = [task, pc]; every finally
\* block of the (recursive) call runs _save_state when the coroutine ends
\* (what leaves the coroutine, gather(return_exceptions=True) keeps)
TaskStep(r, task_id, res, outcome) ==
    LET ws == [workflows EXCEPT ![runs[r].wf].tasks[task_id] = res.task]
    IN  /\ workflows' = ws
        /\ runs' = [runs EXCEPT ![r].co[task_id] = res.pc,
                                ![r].attempts[task_id] =
                                    IF outcome = NoneVal THEN @ ELSE Append(@, outcome)]
        /\ state_file' = IF res.pc = "done" THEN save_state(ws, state_file, disk).file
                          ELSE state_file

\* how an attempt that begins ends in the same segment, if it does
AttemptOutcome(res) == IF res.pc = "await_agent" THEN NoneVal ELSE "no_agent"

\* the first task of the batch whose coroutine has not begun (FIFO ready queue)
NextReady(run, task_id) ==
    \E i \in 1..Len(run.batch) :
        /\ run.batch[i] = task_id
        /\ run.co[task_id] = "ready"
        /\ \A j \in 1..(i - 1) : run.co[run.batch[j]] # "ready"

\* every coroutine of the batch has run its first segment: the event loop
\* runs the tasks that create_task made ready, in order, before it handles
\* any timer or any completion of an executor call of theirs
BatchStarted(run) == \A task_id \in Range(run.batch) : run.co[task_id] # "ready"

\* _execute_task begins: lines 234-261
task_begins(r, task_id) ==
    /\ runs[r].pc = "gather"
    /\ NextReady(runs[r], task_id)
    /\ now < MaxClock
    /\ LET res == OnAttempt(workflows[runs[r].wf].tasks[task_id], agents, now)
       IN  TaskStep(r, task_id, res, AttemptOutcome(res))
    /\ now' = now + 1
    /\ UNCHANGED <<agents, max_concurrent_tasks, orphans, conflict_resolution, disk, delegated, call>>

\* asyncio.sleep(retry_delay * retry_count) is over: the recursive call begins
retry_begins(r, task_id) ==
    /\ runs[r].pc = "gather"
    /\ runs[r].co[task_id] = "sleeping"
    /\ BatchStarted(runs[r])
    /\ now < MaxClock
    /\ LET res == OnAttempt(workflows[runs[r].wf].tasks[task_id], agents, now)
       IN  TaskStep(r, task_id, res, AttemptOutcome(res))
    /\ now' = now + 1
    /\ UNCHANGED <<agents, max_concurrent_tasks, orphans, conflict_resolution, disk, delegated, call>>

\* agent.execute_task returns within task_timeout
agent_returns(r, task_id) ==
    /\ runs[r].pc = "gather"
    /\ runs[r].co[task_id] = "await_agent"
    /\ BatchStarted(runs[r])
    /\ now < MaxClock
    /\ TaskStep(r, task_id,
                OnResult(workflows[runs[r].wf].tasks[task_id], AgentResult, now), "returned")
    /\ now' = now + 1
    /\ UNCHANGED <<agents, max_concurrent_tasks, orphans, conflict_resolution, disk, delegated, call>>

\* agent.execute_task raises, within task_timeout, an exception that is not
\* asyncio.TimeoutError
agent_raises(r, task_id) ==
    /\ runs[r].pc = "gather"
    /\ runs[r].co[task_id] = "await_agent"
    /\ BatchStarted(runs[r])
    /\ now < MaxClock
    /\ LET res == OnException(workflows[runs[r].wf].tasks[task_id], AgentError, now)
       IN  /\ TaskStep(r, task_id, res, "raised")
           /\ now' = IF res.pc = "done" THEN now + 1 ELSE now
    /\ UNCHANGED <<agents, max_concurrent_tasks, orphans, conflict_resolution, disk, delegated, call>>

\* wait_for gives up after task_timeout; the executor thread cannot be
\* cancelled and goes on running agent.execute_task
agent_times_out(r, task_id) ==
    /\ runs[r].pc = "gather"
    /\ runs[r].co[task_id] = "await_agent"
    /\ BatchStarted(runs[r])
    /\ now < MaxClock
    /\ TaskStep(r, task_id, OnTimeout(workflows[runs[r].wf].tasks[task_id], now), "timeout")
    /\ now' = now + 1
    /\ orphans' = orphans + 1
    /\ UNCHANGED <<agents, max_concurrent_tasks, conflict_resolution, disk, delegated, call>>

\* an agent call whose wait_for had timed out comes to its end
orphan_finishes ==
    /\ orphans > 0
    /\ orphans' = orphans - 1
    /\ UNCHANGED <<workflows, agents, max_concurrent_tasks, runs, state_file, now,
                 conflict_resolution, disk, delegated, call>>

\* ---------------------------------------------------------- the caller
\* coordinate_workflow: a workflow is created, its tasks are added (each with
\* the same retry budget, as the max_retries default gives them), and it is
\* executed once
Executed(workflow_id) == \E r \in 1..Len(runs) : runs[r].wf = workflow_id

TaskSeq == <<"A", "B", "C">>

DepChoices(task_id) ==
    CASE task_id = "A" -> {{}, {"B"}}
      [] task_id = "B" -> {{}, {"A"}}
      [] task_id = "C" -> {{}, {"A"}, {"B"}, {"A", "B"}}

CallerCreates ==
    \E w \in WorkflowIds :
        /\ w \notin DOMAIN workflows
        /\ create_workflow(w, "wf", "meta")

CallerAddsTask ==
    \E w \in WorkflowIds :
        /\ w \in DOMAIN workflows
        /\ ~ Executed(w)
        /\ Len(workflows[w].order) < Len(TaskSeq)
        /\ LET task_id == TaskSeq[Len(workflows[w].order) + 1]
           IN  \E deps \in DepChoices(task_id), a \in AgentTypes, m \in 0..MaxRetriesBound :
                   /\ \A o \in DOMAIN workflows[w].tasks : workflows[w].tasks[o].max_retries = m
                   /\ add_task(w, WorkflowTask(task_id, task_id, a, "MEDIUM", deps, m))

CallerExecutes ==
    \E w \in WorkflowIds :
        /\ ~ Executed(w)
        /\ execute_workflow(w)

Next ==
    \/ \E a \in AgentTypes : register_agent(a)
    \/ CallerCreates
    \/ CallerAddsTask
    \/ CallerExecutes
    \/ \E r \in 1..Len(runs) : batch_settled(r)
    \/ \E r \in 1..Len(runs), t \in TaskIds : task_begins(r, t)
    \/ \E r \in 1..Len(runs), t \in TaskIds : retry_begins(r, t)
    \/ \E r \in 1..Len(runs), t \in TaskIds : agent_returns(r, t)
    \/ \E r \in 1..Len(runs), t \in TaskIds : agent_raises(r, t)
    \/ \E r \in 1..Len(runs), t \in TaskIds : agent_times_out(r, t)
    \/ orphan_finishes
Spec == Init /\ [][Next]_vars

\* ------------------------------------------------------------- properties
RunIds == 1..Len(runs)
WfOf(r) == workflows[runs[r].wf]
TasksOf(r) == DOMAIN WfOf(r).tasks
TaskOf(r, task_id) == WfOf(r).tasks[task_id]
Last(seq) == seq[Len(seq)]

ActiveInvocations ==
    Cardinality({p \in RunIds \X TaskIds : runs[p[1]].co[p[2]] = "await_agent"}) + orphans

\* C2: while a workflow is executed, the number of agent calls that have
\* started and not returned never exceeds max_concurrent_tasks.
C2_ConcurrencyCap ==
    \A r \in RunIds : runs[r].pc = "gather" => ActiveInvocations <= max_concurrent_tasks

AllRaised(seq) == seq # <<>> /\ \A i \in 1..Len(seq) : seq[i] = "raised"

\* C3: retry_count never exceeds max_retries, and a task whose agent raised
\* on every attempt ends FAILED with retry_count = max_retries after exactly
\* max_retries + 1 agent calls.
C3_RetryBound ==
    \A r \in RunIds : \A t \in TasksOf(r) :
        LET task == TaskOf(r, t)
            tried == runs[r].attempts[t]
        IN  /\ task.retry_count <= task.max_retries
            /\ AllRaised(tried) => Len(tried) <= task.max_retries + 1
            /\ (runs[r].co[t] = "done" /\ AllRaised(tried)) =>
                   /\ task.status = "FAILED"
                   /\ task.retry_count = task.max_retries
                   /\ Len(tried) = task.max_retries + 1

\* a task with a retry budget has failed for good, its agent raising each time
C3_Witness ==
    \E r \in RunIds : \E t \in TasksOf(r) :
        /\ runs[r].co[t] = "done"
        /\ AllRaised(runs[r].attempts[t])
        /\ TaskOf(r, t).max_retries >= 1

\* the tasks of the workflow that task_id depends on, directly or transitively
RECURSIVE Closure(_, _, _)
Closure(wf, S, n) ==
    IF n = 0 THEN S
    ELSE Closure(wf, S \cup UNION {wf.tasks[t].dependencies \cap DOMAIN wf.tasks : t \in S}, n - 1)

DependsOn(wf, task_id) ==
    Closure(wf, wf.tasks[task_id].dependencies \cap DOMAIN wf.tasks, Cardinality(DOMAIN wf.tasks))

OnCycle(wf, task_id) == task_id \in DependsOn(wf, task_id)

\* the tasks form a dependency cycle: each is on a cycle or depends on one
TasksFormCycle(wf) ==
    /\ DOMAIN wf.tasks # {}
    /\ \A t \in DOMAIN wf.tasks : \E c \in DependsOn(wf, t) \cup {t} : OnCycle(wf, c)

\* run r has never dispatched the task
NeverDispatched(r, task_id) ==
    /\ TaskOf(r, task_id).status = "PENDING"
    /\ TaskOf(r, task_id).start_time = NoTime
    /\ runs[r].co[task_id] = "none"
    /\ runs[r].attempts[task_id] = <<>>

\* C4 as stated: on a workflow whose tasks form a cycle _execute_workflow
\* raises the circular-dependency error to its caller, leaves the workflow
\* FAILED and starts no task.
C4_CycleRaises ==
    \A r \in RunIds :
        (runs[r].pc = "returned" /\ TasksFormCycle(WfOf(r))) =>
            /\ runs[r].raised = CircularMsg(runs[r].wf)
            /\ WfOf(r).status = "FAILED"
            /\ \A t \in TasksOf(r) : NeverDispatched(r, t)

\* C4 amended: on a workflow whose tasks form a cycle the first pass raises
\* the circular-dependency error, the except clause of _execute_workflow
\* catches it (nothing is raised to the caller), the workflow is left FAILED
\* and no task is ever started.
C4_CycleDetected ==
    \A r \in RunIds :
        TasksFormCycle(WfOf(r)) =>
            /\ \A t \in TasksOf(r) : NeverDispatched(r, t)
            /\ runs[r].pc = "returned"
            /\ runs[r].passes = 1
            /\ runs[r].caught = CircularMsg(runs[r].wf)
            /\ runs[r].raised = NoneVal
            /\ WfOf(r).status = "FAILED"

\* a cyclic workflow of three tasks has been executed
C4_Witness ==
    \E r \in RunIds :
        /\ runs[r].pc = "returned"
        /\ TasksFormCycle(WfOf(r))
        /\ Cardinality(TasksOf(r)) = 3

C6_UnknownAgentNotRetried ==
    \A r \in RunIds : \A t \in TasksOf(r) :
        (runs[r].attempts[t] # <<>> /\ runs[r].attempts[t][1] = "no_agent") =>
            /\ runs[r].co[t] = "done"
            /\ TaskOf(r, t).status = "FAILED"
            /\ TaskOf(r, t).retry_count = 0
            /\ Len(runs[r].attempts[t]) = 1

\* this step is the timeout of an agent call of task_id in run r
TimesOut(r, task_id) ==
    /\ Len(runs'[r].attempts[task_id]) = Len(runs[r].attempts[task_id]) + 1
    /\ Last(runs'[r].attempts[task_id]) = "timeout"

\* C7 as stated: a timeout with retry_count < max_retries increments
\* retry_count and leads to another agent call.
C7_TimeoutRetried ==
    [][\A r \in RunIds : \A t \in TasksOf(r) :
          (TimesOut(r, t) /\ TaskOf(r, t).retry_count < TaskOf(r, t).max_retries) =>
              /\ workflows'[runs[r].wf].tasks[t].retry_count = TaskOf(r, t).retry_count + 1
              /\ runs'[r].co[t] = "sleeping"]_vars

\* C7 amended: a timeout is not retried: it settles the task as FAILED with
\* retry_count unchanged, whatever is left of the retry budget, and the agent
\* is not called for the task again.
C7_TimeoutNotRetried ==
    /\ [][\A r \in RunIds : \A t \in TasksOf(r) :
             TimesOut(r, t) =>
                 /\ workflows'[runs[r].wf].tasks[t].retry_count = TaskOf(r, t).retry_count
                 /\ workflows'[runs[r].wf].tasks[t].status = "FAILED"
                 /\ runs'[r].co[t] = "done"]_vars
    /\ [](\A r \in RunIds : \A t \in TasksOf(r) :
             \A i \in 1..Len(runs[r].attempts[t]) :
                 runs[r].attempts[t][i] = "timeout" =>
                     /\ i = Len(runs[r].attempts[t])
                     /\ runs[r].co[t] = "done")

\* a task has timed out with retries left and is settled
C7_Witness ==
    \E r \in RunIds : \E t \in TasksOf(r) :
        /\ runs[r].attempts[t] # <<>>
        /\ Last(runs[r].attempts[t]) = "timeout"
        /\ TaskOf(r, t).retry_count < TaskOf(r, t).max_retries
        /\ runs[r].co[t] = "done"

C9_StatusSteps ==
    \A w \in DOMAIN workflows :
        LET from == workflows[w].status
            to == workflows'[w].status
            starts == \E r \in 1..Len(runs') : r > Len(runs) /\ runs'[r].wf = w
        IN  \/ to = from
            \/ from = "PENDING" /\ to = "RUNNING" /\ starts
            \/ from = "PENDING" /\ to \in {"COMPLETED", "FAILED"} /\ starts
            \/ from = "RUNNING" /\ to \in {"COMPLETED", "FAILED"}

\* completed_at is written in the step that finds remaining_tasks empty, and in no other
C9_Stamp ==
    \A w \in DOMAIN workflows :
        LET done == workflows'[w].status = "COMPLETED" /\ workflows[w].status # "COMPLETED"
        IN  /\ done => /\ workflows'[w].completed_at = now
                       /\ \E r \in 1..Len(runs') :
                              /\ runs'[r].wf = w
                              /\ runs'[r].pc = "returned"
                              /\ runs'[r].remaining = <<>>
                              /\ r \in RunIds => runs[r].pc = "gather"
            /\ ~ done => workflows'[w].completed_at = workflows[w].completed_at

C9_Returned ==
    /\ \A w \in DOMAIN workflows : ~ Executed(w) => workflows[w].status = "PENDING"
    /\ \A r \in RunIds :
           LET wf == WfOf(r)
           IN  /\ runs[r].pc \in {"gather", "returned"}
               /\ runs[r].pc = "gather" => wf.status = "RUNNING"
               /\ runs[r].pc = "returned" =>
                      /\ wf.status \in {"COMPLETED", "FAILED"}
                      /\ wf.status = "COMPLETED" <=> runs[r].remaining = <<>>
                      /\ wf.status = "FAILED" <=> runs[r].caught # NoneVal
               /\ wf.status = "COMPLETED" <=> wf.completed_at # NoTime
               /\ wf.status = "COMPLETED" =>
                      \A t \in DOMAIN wf.tasks : wf.tasks[t].end_time < wf.completed_at

TaskFails(r, task_id) ==
    /\ workflows'[runs[r].wf].tasks[task_id].status = "FAILED"
    /\ TaskOf(r, task_id).status # "FAILED"

\* a task that fails leaves the run, the workflow status and every other
\* task and coroutine as they are
C10_FailureIsLocal ==
    \A r \in RunIds : \A t \in TasksOf(r) :
        TaskFails(r, t) =>
            /\ runs'[r].pc = runs[r].pc
            /\ runs'[r].remaining = runs[r].remaining
            /\ runs'[r].batch = runs[r].batch
            /\ workflows'[runs[r].wf].status = WfOf(r).status
            /\ \A u \in TasksOf(r) \ {t} :
                   /\ workflows'[runs[r].wf].tasks[u] = TaskOf(r, u)
                   /\ runs'[r].co[u] = runs[r].co[u]

\* when a run has returned every dispatched task has settled, every task
\* whose dependencies are COMPLETED has been dispatched, and the workflow is
\* FAILED only if the last pass found tasks remaining and none executable
C10_Settled ==
    \A r \in RunIds :
        LET wf == WfOf(r)
        IN  runs[r].pc = "returned" =>
                /\ \A t \in DOMAIN wf.tasks :
                       /\ runs[r].co[t] \in {"none", "done"}
                       /\ runs[r].co[t] = "done" => wf.tasks[t].status \in {"COMPLETED", "FAILED"}
                       /\ dependencies_satisfied(wf.tasks[t], wf) => runs[r].co[t] = "done"
                /\ wf.status = "FAILED" =>
                       /\ runs[r].caught = CircularMsg(runs[r].wf)
                       /\ runs[r].remaining # <<>>
                       /\ \A t \in Range(runs[r].remaining) :
                              ~ dependencies_satisfied(wf.tasks[t], wf)
                /\ (\A t \in DOMAIN wf.tasks : runs[r].co[t] = "done") => wf.status = "COMPLETED"

\* C10: a task failure changes nothing but the task; the other tasks of the
\* batch run to settlement, the tasks that do not depend on the failed one
\* are still dispatched, and the workflow is FAILED only by a pass that
\* finds no executable task.
C10_TaskFailureContained == [] C10_Settled /\ [][C10_FailureIsLocal]_vars

\* a workflow has completed although a task failed, and a task was
\* dispatched after that failure
C10_Witness ==
    \E r \in RunIds : \E t \in TasksOf(r) : \E u \in TasksOf(r) :
        /\ runs[r].pc = "returned"
        /\ WfOf(r).status = "COMPLETED"
        /\ TaskOf(r, t).status = "FAILED"
        /\ TaskOf(r, u).status = "COMPLETED"
        /\ TaskOf(r, u).start_time > TaskOf(r, t).end_time

\* ------------------------------------------- creating under a used id
\* no call of _execute_workflow is in progress
Idle == \A r \in RunIds : runs[r].pc = "returned"

\* the caller creates a workflow under an id that the store already holds,
\* at a moment when nothing is being executed
CallerCreatesAgain ==
    \E w \in WorkflowIds :
        /\ w \in DOMAIN workflows
        /\ Idle
        /\ create_workflow(w, "wf again", "meta again")

NextDuplicate ==
    \/ Next
    \/ CallerCreatesAgain
SpecDuplicate == Init /\ [][NextDuplicate]_vars

\* this step is a call of create_workflow(w, ...)
Creates(w) ==
    /\ call' # call
    /\ call'.op = "create_workflow"
    /\ call'.args = w

\* C11: create_workflow under an id that the store already holds raises
\* DuplicateWorkflowError and leaves the workflow of that id, with its tasks,
\* status and metadata, as it was.
C11_DuplicateRejected ==
    [][\A w \in DOMAIN workflows :
          Creates(w) =>
              /\ call'.raised = "DuplicateWorkflowError"
              /\ workflows'[w] = workflows[w]]_vars

\* --------------------------------- executing a workflow that is executing
\* the calls of _execute_workflow that one behaviour makes
MaxRuns == 2

\* an execution of the workflow has reached its gather and has not returned
InProgress(workflow_id) ==
    \E r \in RunIds : runs[r].wf = workflow_id /\ runs[r].pc = "gather"

\* async_coordinate_workflow(w) while an execution of w is in progress: the
\* task it creates runs _execute_workflow up to its first await
CallerExecutesAgain ==
    \E w \in WorkflowIds :
        /\ Len(runs) < MaxRuns
        /\ InProgress(w)
        /\ execute_workflow(w)

\* the workload of this specification: two tasks whose agent returns in time
ShortTaskSeq == <<"A", "B">>

CallerAddsShort ==
    \E w \in WorkflowIds :
        /\ w \in DOMAIN workflows
        /\ ~ Executed(w)
        /\ Len(workflows[w].order) < Len(ShortTaskSeq)
        /\ LET task_id == ShortTaskSeq[Len(workflows[w].order) + 1]
           IN  \E deps \in DepChoices(task_id), a \in AgentTypes :
                   add_task(w, WorkflowTask(task_id, task_id, a, "MEDIUM", deps, 0))

NextConcurrent ==
    \/ \E a \in AgentTypes : register_agent(a)
    \/ CallerCreates
    \/ CallerAddsShort
    \/ CallerExecutes
    \/ CallerExecutesAgain
    \/ \E r \in 1..Len(runs) : batch_settled(r)
    \/ \E r \in 1..Len(runs), t \in TaskIds : task_begins(r, t)
    \/ \E r \in 1..Len(runs), t \in TaskIds : agent_returns(r, t)
SpecConcurrent == Init /\ [][NextConcurrent]_vars

\* this step begins a call of _execute_workflow(w)
StartsRun(w) == Len(runs') = Len(runs) + 1 /\ Last(runs').wf = w

\* no task has its agent called by two executions at once
C12_NoDoubleRun ==
    \A r1 \in RunIds : \A r2 \in RunIds \ {r1} : \A t \in TaskIds :
        ~ (runs[r1].co[t] = "await_agent" /\ runs[r2].co[t] = "await_agent")

\* C12: a call of _execute_workflow on a workflow that is being executed
\* fails with WorkflowAlreadyRunningError and touches nothing, so that no
\* task is ever run by two executions at the same time.
C12_ExclusiveExecution ==
    /\ [][\A w \in DOMAIN workflows :
             (StartsRun(w) /\ InProgress(w)) =>
                 /\ Last(runs').raised = "WorkflowAlreadyRunningError"
                 /\ Last(runs').pc = "returned"
                 /\ workflows' = workflows]_vars
    /\ [] C12_NoDoubleRun

\* ------------------------------------------------- missing dependencies
\* the dependency ids of the task that are no key of the tasks of the workflow
MissingDependencies(wf, task_id) == wf.tasks[task_id].dependencies \ DOMAIN wf.tasks

\* C13: every dependency id of a task of a workflow is a key of the tasks of
\* that workflow, add_task having refused the task otherwise; and no run
\* reports a dependency that is missing as a circular dependency.
C13_DependenciesExist ==
    /\ \A w \in DOMAIN workflows : \A t \in DOMAIN workflows[w].tasks :
           MissingDependencies(workflows[w], t) = {}
    /\ \A r \in RunIds :
           runs[r].caught = CircularMsg(runs[r].wf) =>
               \A t \in TasksOf(r) : MissingDependencies(WfOf(r), t) = {}

\* ------------------------------------------------- tasks with priorities
\* the caller adds the next task with a priority of its choice, without
\* dependencies and without a retry budget
CallerAddsPrioritized ==
    \E w \in WorkflowIds :
        /\ w \in DOMAIN workflows
        /\ ~ Executed(w)
        /\ Len(workflows[w].order) < Len(TaskSeq)
        /\ LET task_id == TaskSeq[Len(workflows[w].order) + 1]
           IN  \E priority \in TaskPriority, a \in AgentTypes :
                   add_task(w, WorkflowTask(task_id, task_id, a, priority, {}, 0))

NextPriority ==
    \/ \E a \in AgentTypes : register_agent(a)
    \/ CallerCreates
    \/ CallerAddsPrioritized
    \/ CallerExecutes
    \/ \E r \in 1..Len(runs) : batch_settled(r)
    \/ \E r \in 1..Len(runs), t \in TaskIds : task_begins(r, t)
    \/ \E r \in 1..Len(runs), t \in TaskIds : agent_returns(r, t)
SpecPriority == Init /\ [][NextPriority]_vars

\* CRITICAL > HIGH > MEDIUM > LOW
PriorityRank(priority) ==
    CASE priority = "LOW" -> 1
      [] priority = "MEDIUM" -> 2
      [] priority = "HIGH" -> 3
      [] priority = "CRITICAL" -> 4

\* the place of a task id in the order of the ids
IdRank(task_id) == CHOOSE i \in 1..Len(TaskSeq) : TaskSeq[i] = task_id

\* task u comes before task t by priority, then by task id
ComesFirst(wf, u, t) ==
    \/ PriorityRank(wf.tasks[u].priority) > PriorityRank(wf.tasks[t].priority)
    \/ /\ wf.tasks[u].priority = wf.tasks[t].priority
       /\ IdRank(u) < IdRank(t)

\* the pass of run r has made its batch and none of its tasks has begun
JustDispatched(r) ==
    /\ runs[r].pc = "gather"
    /\ \A t \in Range(runs[r].batch) : runs[r].co[t] = "ready"

\* C14: a batch holds the executable tasks that come first by priority and
\* then by task id: no executable task that is left waiting comes before a
\* task of the batch.
C14_PriorityOrder ==
    \A r \in RunIds :
        JustDispatched(r) =>
            \A t \in Range(runs[r].batch) :
                \A u \in Range(ExecutableTasks(WfOf(r), runs[r].remaining)) \ Range(runs[r].batch) :
                    ~ ComesFirst(WfOf(r), u, t)

\* ------------------------------------------- a state file that cannot be written
\* the coordinator runs on a file system that fails every write of the state
\* file in one way, or on one that works
InitFaulty == \E fault \in DiskFaults \cup {"ok"} : Construct("MAJORITY_VOTE", fault)

SpecFaulty == InitFaulty /\ [][Next]_vars

\* the status that the attempts made on a task leave it in
StatusAfter(tried) ==
    IF tried = <<>> THEN "PENDING"
    ELSE IF Last(tried) = "returned" THEN "COMPLETED"
    ELSE "FAILED"

\* no call has raised an error to its caller
C15_NothingRaised ==
    /\ call.raised = NoneVal
    /\ \A r \in RunIds : runs[r].raised = NoneVal

\* the store holds what the calls made so far have put into it
C15_EffectApplied ==
    /\ call.op = "create_workflow" =>
           /\ call.args \in DOMAIN workflows
           /\ ~ Executed(call.args) => workflows[call.args] = call.returned
    /\ call.op = "add_task" =>
           /\ call.args \in DOMAIN workflows
           /\ workflows[call.args].order # <<>>
    /\ \A r \in RunIds : \A t \in TasksOf(r) :
           /\ runs[r].co[t] = "done" =>
                  /\ TaskOf(r, t).status = StatusAfter(runs[r].attempts[t])
                  /\ TaskOf(r, t).end_time # NoTime
           /\ runs[r].pc = "returned" =>
                  TaskOf(r, t).status = StatusAfter(runs[r].attempts[t])

\* C15: whether the state file can be written or not, no call raises an
\* error to its caller, the store holds what create_workflow and add_task
\* put into it, every task ends in the status that the outcomes of its
\* agent calls give it, and the workflow in the status that its tasks give it.
C15_PersistenceFailureSwallowed ==
    /\ C15_NothingRaised
    /\ C15_EffectApplied
    /\ C9_Returned
    /\ C10_Settled

\* on a file system that fails every write, a workflow has completed in more
\* than one batch, a task of it having failed after a retry
C15_Witness ==
    /\ disk \in DiskFaults
    /\ state_file # state_data(workflows)
    /\ \E r \in RunIds : \E t \in TasksOf(r) :
           /\ runs[r].pc = "returned"
           /\ runs[r].passes >= 2
           /\ WfOf(r).status = "COMPLETED"
           /\ TaskOf(r, t).status = "FAILED"
           /\ TaskOf(r, t).retry_count >= 1

\* ------------------------------------------------------------ restarting
\* the content of a state file that something else than _save_state wrote:
\* no JSON, a JSON array, or a JSON object without the key "workflows"
ForeignFile(shape) == [exists |-> TRUE, shape |-> shape, workflows |-> EmptyDict]

ForeignShapes == {"not_json", "json_array", "other_object"}

\* Workflow(**wf_data): a Workflow whose fields are the values of the JSON
\* object as json.load gives them: status is the value string and tasks is
\* the dict of the task dicts
LoadedWorkflow(wf_data) ==
    [id |-> wf_data.id, name |-> wf_data.name, tasks |-> wf_data.tasks,
     order |-> wf_data.order, status |-> wf_data.status,
     created_at |-> wf_data.created_at, completed_at |-> wf_data.completed_at,
     metadata |-> wf_data.metadata]

\* _load_state: the store it fills, and what it raises to __init__;
\* FileNotFoundError and json.JSONDecodeError are caught
load_state(file) ==
    IF ~ file.exists THEN [workflows |-> EmptyDict, raised |-> NoneVal]
    ELSE IF file.shape = "not_json" THEN [workflows |-> EmptyDict, raised |-> NoneVal]
    ELSE IF file.shape = "json_array"
         THEN [workflows |-> EmptyDict, raised |-> "AttributeError"]
    ELSE [workflows |-> [w \in DOMAIN file.workflows |-> LoadedWorkflow(file.workflows[w])],
          raised |-> NoneVal]

\* the process ends and a new AsyncCoordinator is constructed on the state
\* file, whose content is then `file`
construct_on(file) ==
    /\ LET loaded == load_state(file)
       IN  /\ workflows' = loaded.workflows
           /\ call' = Call("__init__", file, NoneVal, loaded.raised)
    /\ state_file' = file
    /\ agents' = {}
    /\ runs' = <<>>
    /\ orphans' = 0
    /\ delegated' = NoDelegation
    /\ UNCHANGED <<max_concurrent_tasks, now, conflict_resolution, disk>>

\* a restart on the file as the old process left it
restart == construct_on(state_file)

\* a restart on a file that something else wrote after the old process ended
restart_on_foreign(shape) == construct_on(ForeignFile(shape))

\* task.end_time - task.start_time if both are set
Duration(task) ==
    IF task.start_time # NoTime /\ task.end_time # NoTime
    THEN task.end_time - task.start_time
    ELSE NoneVal

\* the dict that get_workflow_results builds
WorkflowResults(workflow_id, workflow) ==
    [workflow_id |-> workflow_id, status |-> StatusValue(workflow.status),
     tasks |-> [task_id \in DOMAIN workflow.tasks |->
                  [status |-> StatusValue(workflow.tasks[task_id].status),
                   result |-> workflow.tasks[task_id].result,
                   error |-> workflow.tasks[task_id].error,
                   duration |-> Duration(workflow.tasks[task_id])]],
     created_at |-> workflow.created_at, completed_at |-> workflow.completed_at,
     metadata |-> workflow.metadata]

\* a get_workflow_results that takes the workflow out of the store
get_workflow_results_pops(workflow_id) ==
    /\ workflow_id \in DOMAIN workflows
    /\ call' = Call("get_workflow_results", workflow_id,
                    WorkflowResults(workflow_id, workflows[workflow_id]), NoneVal)
    /\ workflows' = [w \in DOMAIN workflows \ {workflow_id} |-> workflows[w]]
    /\ UNCHANGED <<agents, max_concurrent_tasks, runs, orphans, state_file, now,
                   conflict_resolution, disk, delegated>>

get_workflow_results(workflow_id) ==
    /\ call' =
           IF workflow_id \notin DOMAIN workflows
           THEN Call("get_workflow_results", workflow_id, NoneVal, NoWorkflowMsg(workflow_id))
           ELSE IF ~ Intact(workflows[workflow_id])
           THEN Call("get_workflow_results", workflow_id, NoneVal, AttributeErrorMsg)
           ELSE Call("get_workflow_results", workflow_id,
                     WorkflowResults(workflow_id, workflows[workflow_id]), NoneVal)
    /\ UNCHANGED <<workflows, agents, max_concurrent_tasks, runs, orphans, state_file, now,
                   conflict_resolution, disk, delegated>>

\* the constructor has returned: there is a coordinator to call
Constructed == ~ (call.op = "__init__" /\ call.raised # NoneVal)

CallerAsksResults ==
    \E w \in WorkflowIds :
        /\ Constructed
        /\ Idle
        /\ get_workflow_results(w)

NextRestart ==
    \/ \E a \in AgentTypes : Constructed /\ register_agent(a)
    \/ Constructed /\ CallerCreates
    \/ Constructed /\ CallerAddsShort
    \/ Constructed /\ CallerExecutes
    \/ CallerAsksResults
    \/ \E r \in 1..Len(runs) : batch_settled(r)
    \/ \E r \in 1..Len(runs), t \in TaskIds : task_begins(r, t)
    \/ \E r \in 1..Len(runs), t \in TaskIds : agent_returns(r, t)
    \/ \E r \in 1..Len(runs), t \in TaskIds : agent_raises(r, t)
    \/ restart
    \/ \E shape \in ForeignShapes : restart_on_foreign(shape)
SpecRestart == Init /\ [][NextRestart]_vars

\* the coordinator is as its constructor has left it, on the file call.args
JustConstructed == call.op = "__init__" /\ runs = <<>>

\* C16: a coordinator constructed on a file that _save_state wrote holds a
\* store equivalent to the one saved: its workflows and tasks are objects
\* that a snapshot can be taken of, and that snapshot is the file.
C16_RoundTrip ==
    (JustConstructed /\ call.args.shape = "state") =>
        /\ call.raised = NoneVal
        /\ Serializable(workflows)
        /\ state_data(workflows) = call.args

\* C17: on a state file that is missing or that _save_state did not write,
\* the constructor returns and the store is empty.
C17_CorruptIsEmpty ==
    (JustConstructed /\ call.args.shape # "state") =>
        /\ call.raised = NoneVal
        /\ workflows = EmptyDict

\* ------------------------------------------------------------- cleaning up
\* a cleanup that takes a workflow of the age max_age as too old
Expired_Inclusive(workflow, current_time, max_age) ==
    /\ workflow.status \in {"COMPLETED", "FAILED"}
    /\ workflow.completed_at # NoTime
    /\ current_time - workflow.completed_at >= max_age

\* a cleanup that does not look at the status
Expired_AnyStatus(workflow, current_time, max_age) ==
    /\ workflow.completed_at # NoTime
    /\ current_time - workflow.completed_at > max_age

\* the test of lines 470-474
Expired(workflow, current_time, max_age) ==
    /\ workflow.status \in {"COMPLETED", "FAILED"}
    /\ workflow.completed_at # NoTime
    /\ current_time - workflow.completed_at > max_age

cleanup_completed_workflows(max_age) ==
    /\ LET current_time == now
           to_remove == {wf_id \in DOMAIN workflows :
                            Expired(workflows[wf_id], current_time, max_age)}
           ws == [wf_id \in DOMAIN workflows \ to_remove |-> workflows[wf_id]]
       IN  /\ workflows' = ws
           /\ state_file' = IF to_remove # {} THEN save_state(ws, state_file, disk).file
                             ELSE state_file
           /\ call' = Call("cleanup_completed_workflows", max_age,
                           Cardinality(to_remove), NoneVal)
    /\ UNCHANGED <<agents, max_concurrent_tasks, runs, orphans, now, conflict_resolution, disk, delegated>>

\* the workflows of this specification: w1, with the tasks of ShortTaskSeq,
\* and w2, which stays empty; a workflow with tasks is executed up to MaxRuns
\* times, one execution after the other, a workflow without tasks once
CleanupIds == {"w1", "w2"}

\* the max_age arguments
MaxAges == {0, 2}

RunsOf(workflow_id) == Cardinality({r \in RunIds : runs[r].wf = workflow_id})

CallerCreatesAny ==
    \E w \in CleanupIds :
        /\ w \notin DOMAIN workflows
        /\ ~ Executed(w)
        /\ create_workflow(w, "wf", "meta")

CallerExecutesAny ==
    \E w \in CleanupIds :
        /\ Idle
        /\ RunsOf(w) < MaxRuns
        /\ w \in DOMAIN workflows
        /\ workflows[w].order = <<>> => ~ Executed(w)
        /\ execute_workflow(w)

CallerCleansUp == \E max_age \in MaxAges : cleanup_completed_workflows(max_age)

NextCleanup ==
    \/ \E a \in AgentTypes : register_agent(a)
    \/ CallerCreatesAny
    \/ CallerAddsShort
    \/ CallerExecutesAny
    \/ CallerCleansUp
    \/ \E r \in 1..Len(runs) : batch_settled(r)
    \/ \E r \in 1..Len(runs), t \in TaskIds : task_begins(r, t)
    \/ \E r \in 1..Len(runs), t \in TaskIds : agent_returns(r, t)
    \/ \E r \in 1..Len(runs), t \in TaskIds : agent_raises(r, t)
SpecCleanup == Init /\ [][NextCleanup]_vars

\* this step is a call of cleanup_completed_workflows: no other step that
\* leaves that call as the last one keeps the runs, the clock and the agents
CleansUp ==
    /\ call'.op = "cleanup_completed_workflows"
    /\ runs' = runs
    /\ now' = now
    /\ agents' = agents

\* the workflows that are COMPLETED or FAILED and whose completed_at is more
\* than max_age before the time t
FinishedBefore(t, max_age) ==
    {w \in DOMAIN workflows :
        /\ workflows[w].status \in {"COMPLETED", "FAILED"}
        /\ workflows[w].completed_at # NoTime
        /\ workflows[w].completed_at + max_age < t}

\* C18: a call of cleanup_completed_workflows(max_age) removes the workflows
\* that are COMPLETED or FAILED and were completed more than max_age ago,
\* and no other; it leaves the workflows it keeps as they were, returns the
\* number of those it removed, and writes the state file if and only if it
\* removed one.
C18_CleanupExact ==
    [][CleansUp =>
          LET old == FinishedBefore(now, call'.args)
          IN  /\ DOMAIN workflows' = DOMAIN workflows \ old
              /\ \A w \in DOMAIN workflows' : workflows'[w] = workflows[w]
              /\ call'.returned = Cardinality(old)
              /\ call'.raised = NoneVal
              /\ old # {} => state_file' = state_data(workflows')
              /\ old = {} => state_file' = state_file]_vars

\* a cleanup with a max_age above zero has removed one workflow and kept
\* the other, which had finished later
C18_Witness ==
    /\ call.op = "cleanup_completed_workflows"
    /\ call.args > 0
    /\ call.returned = 1
    /\ Idle
    /\ state_file = state_data(workflows)
    /\ \E w \in DOMAIN workflows :
           /\ workflows[w].status \in {"COMPLETED", "FAILED"}
           /\ workflows[w].completed_at # NoTime
           /\ workflows[w].completed_at + call.args >= now

\* ------------------------------------------------------ resolving conflicts
\* dict.get(key, default)
get(c, key, default) == IF key \in DOMAIN c THEN c[key] ELSE default

\* responses = [c.get("response") for c in conflicts]
responses_of(conflicts) ==
    [i \in 1..Len(conflicts) |-> get(conflicts[i], "response", NoneVal)]

\* responses.count(x)
count(responses, x) == Cardinality({i \in 1..Len(responses) : responses[i] = x})

\* the orders in which set(responses) can yield its elements: the order of a
\* set follows the hashes of its elements, which CPython salts per process
\* for str, so that it is not fixed by the list the set was built from
SetOrders(S) == {o \in [1..Cardinality(S) -> S] : Range(o) = S}

\* max(iterable, key = responses.count): the first element, in the order of
\* the iteration, whose count no other element exceeds
max_count(order, responses) ==
    LET i == CHOOSE k \in 1..Len(order) :
                 /\ \A j \in 1..Len(order) :
                        count(responses, order[j]) <= count(responses, order[k])
                 /\ \A j \in 1..(k - 1) :
                        count(responses, order[j]) < count(responses, order[k])
    IN  order[i]

\* next(c for c in conflicts if c.get("response") == most_common)
resolve_by_majority_vote(conflicts, order) ==
    LET responses == responses_of(conflicts)
        most_common == max_count(order, responses)
        i == CHOOSE k \in 1..Len(conflicts) :
                 /\ responses[k] = most_common
                 /\ \A j \in 1..(k - 1) : responses[j] # most_common
    IN  conflicts[i]

\* key = lambda x: x.get("expertise_score", 0)
expertise(c) == get(c, "expertise_score", 0)

\* a sort that puts a candidate in front of those of the same score
insert_before_equal(sorted_conflicts, c) ==
    LET k == Cardinality({i \in 1..Len(sorted_conflicts) :
                             expertise(sorted_conflicts[i]) > expertise(c)})
    IN  SubSeq(sorted_conflicts, 1, k) \o <<c>>
            \o SubSeq(sorted_conflicts, k + 1, Len(sorted_conflicts))

\* one step of sorted(..., reverse = True), which is stable: the candidate
\* goes behind every candidate of a higher or of the same score that came
\* before it in the input
insert(sorted_conflicts, c) ==
    LET k == Cardinality({i \in 1..Len(sorted_conflicts) :
                             expertise(sorted_conflicts[i]) >= expertise(c)})
    IN  SubSeq(sorted_conflicts, 1, k) \o <<c>>
            \o SubSeq(sorted_conflicts, k + 1, Len(sorted_conflicts))

RECURSIVE sorted(_)
sorted(conflicts) ==
    IF conflicts = <<>> THEN <<>>
    ELSE insert(sorted(SubSeq(conflicts, 1, Len(conflicts) - 1)),
                conflicts[Len(conflicts)])

resolve_by_expert_priority(conflicts) == sorted(conflicts)[1]

resolve_by_consensus(conflicts) == conflicts[1]

\* a resolve_conflicts that takes a single candidate for none
resolved_single_dropped(conflicts, order) ==
    IF Len(conflicts) <= 1 THEN EmptyDict
    ELSE IF conflict_resolution = "MAJORITY_VOTE"
         THEN resolve_by_majority_vote(conflicts, order)
    ELSE IF conflict_resolution = "EXPERT_PRIORITY"
         THEN resolve_by_expert_priority(conflicts)
    ELSE conflicts[1]

\* what resolve_conflicts returns when set(responses) yields in `order`
resolved(conflicts, order) ==
    IF conflicts = <<>> THEN EmptyDict
    ELSE IF Len(conflicts) = 1 THEN conflicts[1]
    ELSE IF conflict_resolution = "MAJORITY_VOTE"
         THEN resolve_by_majority_vote(conflicts, order)
    ELSE IF conflict_resolution = "EXPERT_PRIORITY"
         THEN resolve_by_expert_priority(conflicts)
    ELSE IF conflict_resolution = "CONSENSUS"
         THEN resolve_by_consensus(conflicts)
    ELSE conflicts[1]

resolve_conflicts(conflicts) ==
    /\ \E order \in SetOrders(Range(responses_of(conflicts))) :
           call' = Call("resolve_conflicts", conflicts, resolved(conflicts, order), NoneVal)
    /\ UNCHANGED <<workflows, agents, max_concurrent_tasks, runs, orphans, state_file,
                   now, conflict_resolution, disk, delegated>>

\* the longest list of candidates
MaxConflicts == 3

\* the "response" and the "expertise_score" of a candidate; the empty set
\* stands for a dict without the key
ResponseChoices == {{}, {"x"}, {"y"}}
ScoreChoices == {{}, {0}, {1}}

\* the i-th candidate of a list: a dict with the key "agent", which tells
\* the candidates of one list apart, and the keys chosen
Candidate(i, response, score) ==
    [k \in {"agent"} \cup (IF response = {} THEN {} ELSE {"response"})
                     \cup (IF score = {} THEN {} ELSE {"expertise_score"}) |->
        IF k = "agent" THEN i
        ELSE IF k = "response" THEN CHOOSE r \in response : TRUE
        ELSE CHOOSE x \in score : TRUE]

ConflictLists ==
    UNION {{[i \in 1..n |-> Candidate(i, payload[i][1], payload[i][2])] :
                payload \in [1..n -> ResponseChoices \X ScoreChoices]} :
           n \in 0..MaxConflicts}

\* a coordinator of any strategy
InitResolve == \E strategy \in ConflictResolutionStrategy : Construct(strategy, "ok")

\* resolve_conflicts reads conflict_resolution and writes nothing: the call
\* on the coordinator as it was constructed stands for every call
CallerResolves ==
    /\ call.op = "__init__"
    /\ \E conflicts \in ConflictLists : resolve_conflicts(conflicts)

NextResolve == CallerResolves
SpecResolve == InitResolve /\ [][NextResolve]_vars

\* resolve_conflicts has returned on two candidates or more
Resolved(strategy) ==
    /\ call.op = "resolve_conflicts"
    /\ conflict_resolution = strategy
    /\ Len(call.args) >= 2

\* the first candidate of the list among those at the positions `best`
FirstOf(conflicts, best) ==
    conflicts[CHOOSE i \in best : \A j \in best : i <= j]

\* the positions of the candidates whose response no other response
\* outnumbers
LargestGroups(conflicts) ==
    LET responses == responses_of(conflicts)
    IN  {i \in 1..Len(conflicts) :
            \A j \in 1..Len(conflicts) :
                count(responses, responses[j]) <= count(responses, responses[i])}

\* C19: by majority vote, resolve_conflicts returns the first candidate of
\* the input among those whose response belongs to a largest group of equal
\* responses.
C19_MajorityFirst ==
    Resolved("MAJORITY_VOTE") =>
        call.returned = FirstOf(call.args, LargestGroups(call.args))

\* the positions of the candidates of the highest expertise_score
HighestScore(conflicts) ==
    {i \in 1..Len(conflicts) :
        \A j \in 1..Len(conflicts) : expertise(conflicts[j]) <= expertise(conflicts[i])}

\* C20: by expert priority, resolve_conflicts returns the candidate of the
\* highest expertise_score, and the first of the input among those that
\* share it.
C20_ExpertFirst ==
    Resolved("EXPERT_PRIORITY") =>
        call.returned = FirstOf(call.args, HighestScore(call.args))

\* by expert priority, two candidates behind the first one share the highest
\* score and the earlier of the two is returned
C20_Witness ==
    /\ Resolved("EXPERT_PRIORITY")
    /\ Len(call.args) = 3
    /\ HighestScore(call.args) = {2, 3}
    /\ call.returned = call.args[2]

\* resolve_conflicts has returned or raised on a list of n candidates
ResolvedOn(n) ==
    /\ call.op = "resolve_conflicts"
    /\ Len(call.args) = n

\* C21: resolve_conflicts on an empty list raises EmptyConflictSetError,
\* whatever the strategy.
C21_EmptyRejected ==
    ResolvedOn(0) => call.raised = "EmptyConflictSetError"

\* C22: resolve_conflicts on a list of one candidate returns that candidate,
\* whatever the strategy.
C22_SingleReturned ==
    ResolvedOn(1) =>
        /\ call.raised = NoneVal
        /\ call.returned = call.args[1]

\* a single candidate with a response and a score has been resolved by a
\* strategy other than the default one
C22_Witness ==
    /\ ResolvedOn(1)
    /\ conflict_resolution = "MANUAL_OVERRIDE"
    /\ DOMAIN call.args[1] = {"agent", "response", "expertise_score"}
    /\ call.returned = call.args[1]

\* --------------------------------------------------------------- delegation
\* the agent types a caller delegates to; no "reviewer" is ever registered
DelegateAgentTypes == AgentTypes \cup {"reviewer"}

\* delegate_task up to its await: the ValueError for an agent type that is
\* not registered, or agent.execute_task handed to the executor
delegate_task(task, agent_type) ==
    /\ IF agent_type \notin agents
       THEN /\ delegated' = [task |-> task, agent_type |-> agent_type,
                             pc |-> "raised", executions |-> 0]
            /\ call' = Call("delegate_task", <<task, agent_type>>, NoneVal,
                            NoAgentMsg(agent_type))
       ELSE /\ delegated' = [task |-> task, agent_type |-> agent_type,
                             pc |-> "in_executor", executions |-> 1]
            /\ call' = call
    /\ UNCHANGED <<workflows, agents, max_concurrent_tasks, runs, orphans, state_file,
                   now, conflict_resolution, disk>>

\* a delegate_task that hands the task to the executor once more when the
\* agent has raised
delegate_failed_retries(d) ==
    IF d.executions < 2 THEN [d EXCEPT !.executions = @ + 1]
    ELSE [d EXCEPT !.pc = "raised"]

\* the call when agent.execute_task has raised: no except clause, the
\* exception leaves delegate_task
delegate_failed(d) == [d EXCEPT !.pc = "raised"]

\* agent.execute_task returns and delegate_task returns its result
delegate_agent_returns ==
    /\ delegated.pc = "in_executor"
    /\ delegated' = [delegated EXCEPT !.pc = "returned"]
    /\ call' = Call("delegate_task", <<delegated.task, delegated.agent_type>>,
                    AgentResult, NoneVal)
    /\ UNCHANGED <<workflows, agents, max_concurrent_tasks, runs, orphans, state_file,
                   now, conflict_resolution, disk>>

\* agent.execute_task raises
delegate_agent_raises ==
    /\ delegated.pc = "in_executor"
    /\ delegated' = delegate_failed(delegated)
    /\ call' = IF delegated'.pc = "raised"
               THEN Call("delegate_task", <<delegated.task, delegated.agent_type>>,
                         NoneVal, AgentError)
               ELSE call
    /\ UNCHANGED <<workflows, agents, max_concurrent_tasks, runs, orphans, state_file,
                   now, conflict_resolution, disk>>

\* the caller delegates one task at a time
CallerDelegates ==
    /\ delegated.pc # "in_executor"
    /\ \E agent_type \in DelegateAgentTypes : delegate_task("payload", agent_type)

\* delegations next to a store that changes and a workflow that executes
NextDelegate ==
    \/ \E a \in AgentTypes : register_agent(a)
    \/ CallerCreates
    \/ CallerAddsShort
    \/ CallerExecutes
    \/ CallerDelegates
    \/ delegate_agent_returns
    \/ delegate_agent_raises
    \/ \E r \in 1..Len(runs) : batch_settled(r)
    \/ \E r \in 1..Len(runs), t \in TaskIds : task_begins(r, t)
    \/ \E r \in 1..Len(runs), t \in TaskIds : agent_returns(r, t)
SpecDelegate == Init /\ [][NextDelegate]_vars

\* this step is a step of delegate_task
Delegates == delegated' # delegated

\* C23: delegate_task raises the ValueError of the missing agent when the
\* agent type is not registered, and hands the task to the agent once
\* otherwise; what the agent returns or raises goes to the caller with no
\* further attempt; no step of delegate_task changes a workflow, a task or
\* the state file.
C23_DelegateOnce ==
    [][Delegates =>
          /\ workflows' = workflows
          /\ state_file' = state_file
          /\ runs' = runs
          /\ delegated.pc # "in_executor" =>
                IF delegated'.agent_type \in agents
                THEN delegated'.pc = "in_executor" /\ delegated'.executions = 1
                ELSE /\ delegated'.pc = "raised" /\ delegated'.executions = 0
                     /\ call'.op = "delegate_task"
                     /\ call'.raised = NoAgentMsg(delegated'.agent_type)
          /\ delegated.pc = "in_executor" =>
                /\ delegated'.executions = 1
                /\ delegated'.pc \in {"returned", "raised"}
                /\ call'.op = "delegate_task"
                /\ call'.returned = IF delegated'.pc = "returned" THEN AgentResult ELSE NoneVal
                /\ call'.raised = IF delegated'.pc = "raised" THEN AgentError ELSE NoneVal]_vars

\* the agent has raised on a delegated task while a workflow with tasks is
\* in the store, and the caller got the agent's error after one execution
C23_Witness ==
    /\ delegated.pc = "raised"
    /\ delegated.executions = 1
    /\ call.op = "delegate_task"
    /\ call.raised = AgentError
    /\ \E w \in DOMAIN workflows : workflows[w].order # <<>>
    /\ state_file = state_data(workflows)

\* ----------------------------------------------------------------- results
\* the caller asks for the results of a workflow at any moment of its life
CallerAsksAnytime == \E w \in WorkflowIds : get_workflow_results(w)

\* one process: a workflow is created, filled, executed once and asked for
NextResults ==
    \/ \E a \in AgentTypes : register_agent(a)
    \/ CallerCreates
    \/ CallerAddsShort
    \/ CallerExecutes
    \/ CallerAsksAnytime
    \/ \E r \in 1..Len(runs) : batch_settled(r)
    \/ \E r \in 1..Len(runs), t \in TaskIds : task_begins(r, t)
    \/ \E r \in 1..Len(runs), t \in TaskIds : agent_returns(r, t)
    \/ \E r \in 1..Len(runs), t \in TaskIds : agent_raises(r, t)
SpecResults == Init /\ [][NextResults]_vars

\* this step is a call of get_workflow_results whose caller gets something
\* else than the caller of the call before
GetsResults == call'.op = "get_workflow_results" /\ call' # call

\* the last call was get_workflow_results and it returned the results of a
\* COMPLETED workflow
GotCompleted ==
    /\ call.op = "get_workflow_results"
    /\ call.raised = NoneVal
    /\ call.returned.status = "completed"

\* C24: a call of get_workflow_results changes nothing in the store, and a
\* call that follows one on the same COMPLETED workflow returns what that
\* one returned (SpecResults has no step that changes a COMPLETED workflow).
C24_ResultsIdempotent ==
    [][GetsResults =>
          /\ workflows' = workflows
          /\ state_file' = state_file
          /\ runs' = runs
          /\ agents' = agents
          /\ ~ (GotCompleted /\ call'.args = call.args)]_vars

\* the results of a COMPLETED workflow with two tasks have been returned
C24_Witness ==
    /\ GotCompleted
    /\ call.args \in DOMAIN workflows
    /\ workflows[call.args].status = "COMPLETED"
    /\ DOMAIN call.returned.tasks = {"A", "B"}
    /\ state_file = state_data(workflows)

\* C25: get_workflow_results on a workflow of the store returns a structure
\* with one entry per task of the workflow, in which every failed task has an
\* error string and the duration of a task is end_time - start_time if both
\* are set and None otherwise.
C25_WellFormed ==
    [][(GetsResults /\ call'.args \in DOMAIN workflows) =>
          LET wf == workflows[call'.args]
              got == call'.returned
          IN  /\ call'.raised = NoneVal
              /\ DOMAIN got.tasks = DOMAIN wf.tasks
              /\ \A t \in DOMAIN got.tasks :
                     /\ got.tasks[t].status = "failed" => got.tasks[t].error # NoneVal
                     /\ got.tasks[t].duration =
                            IF wf.tasks[t].start_time # NoTime /\ wf.tasks[t].end_time # NoTime
                            THEN wf.tasks[t].end_time - wf.tasks[t].start_time
                            ELSE NoneVal]_vars

\* ------------------------------------------------------------- the diamond
\* A, then B and C on A, then D on B and C
DiamondSeq == <<"A", "B", "C", "D">>

DiamondDeps(task_id) ==
    CASE task_id = "A" -> {}
      [] task_id = "B" -> {"A"}
      [] task_id = "C" -> {"A"}
      [] task_id = "D" -> {"B", "C"}

CallerAddsDiamond ==
    \E w \in WorkflowIds :
        /\ w \in DOMAIN workflows
        /\ ~ Executed(w)
        /\ Len(workflows[w].order) < Len(DiamondSeq)
        /\ LET task_id == DiamondSeq[Len(workflows[w].order) + 1]
           IN  \E a \in AgentTypes :
                   add_task(w, WorkflowTask(task_id, task_id, a, "MEDIUM",
                                            DiamondDeps(task_id), 0))

\* the diamond, or the part of it that the caller has added, executed once
\* under either cap, by agents that return or raise
NextDiamond ==
    \/ \E a \in AgentTypes : register_agent(a)
    \/ CallerCreates
    \/ CallerAddsDiamond
    \/ CallerExecutes
    \/ \E r \in 1..Len(runs) : batch_settled(r)
    \/ \E r \in 1..Len(runs), t \in TaskIds : task_begins(r, t)
    \/ \E r \in 1..Len(runs), t \in TaskIds : agent_returns(r, t)
    \/ \E r \in 1..Len(runs), t \in TaskIds : agent_raises(r, t)
SpecDiamond == Init /\ [][NextDiamond]_vars

\* the remaining tasks of run r whose dependencies are all COMPLETED
ReadyTasks(r) ==
    LET wf == workflows[runs[r].wf]
    IN  {t \in Range(runs[r].remaining) :
            \A d \in wf.tasks[t].dependencies :
                d \in DOMAIN wf.tasks /\ wf.tasks[d].status = "COMPLETED"}

\* run r executes the whole diamond under the cap 2
RunsDiamond(r) ==
    /\ max_concurrent_tasks = 2
    /\ workflows[runs[r].wf].order = DiamondSeq

\* C26: a batch is the set of the remaining tasks whose dependencies are all
\* COMPLETED whenever that set is not larger than max_concurrent_tasks; on
\* the diamond with the cap 2 every batch is A, or B with C, or D, each task
\* begins after its dependencies have ended, and when no task has failed the
\* execution returns after three batches with the workflow COMPLETED.
C26_LevelByLevel ==
    \A r \in RunIds :
        /\ JustDispatched(r) =>
              (Cardinality(ReadyTasks(r)) <= max_concurrent_tasks =>
                   Range(runs[r].batch) = ReadyTasks(r))
        /\ RunsDiamond(r) =>
              LET wf == workflows[runs[r].wf]
              IN  /\ runs[r].pc = "gather" =>
                        runs[r].batch \in {<<"A">>, <<"B", "C">>, <<"D">>}
                  /\ \A t \in DOMAIN wf.tasks : \A d \in wf.tasks[t].dependencies :
                        wf.tasks[t].start_time # NoTime =>
                            /\ wf.tasks[d].end_time # NoTime
                            /\ wf.tasks[d].end_time <= wf.tasks[t].start_time
                  /\ (/\ runs[r].pc = "returned"
                      /\ \A t \in DOMAIN wf.tasks : wf.tasks[t].status # "FAILED") =>
                        /\ wf.status = "COMPLETED"
                        /\ runs[r].passes = 3
                        /\ \A t \in DOMAIN wf.tasks : wf.tasks[t].status = "COMPLETED"

\* the diamond has been executed under the cap 2 in three batches and the
\* workflow is COMPLETED
C26_Witness ==
    \E r \in RunIds :
        /\ RunsDiamond(r)
        /\ runs[r].pc = "returned"
        /\ runs[r].passes = 3
        /\ workflows[runs[r].wf].status = "COMPLETED"
        /\ workflows[runs[r].wf].tasks["D"].status = "COMPLETED"

\* ------------------------------------------------- tasks for no workflow
\* the workflow ids a caller adds tasks to; no "w9" is ever created
AddTaskIds == WorkflowIds \cup {"w9"}

\* the caller adds a task to a workflow that is not in the store
CallerAddsToMissing ==
    \E w \in AddTaskIds, task_id \in {"A", "B"}, a \in AgentTypes :
        /\ w \notin DOMAIN workflows
        /\ add_task(w, WorkflowTask(task_id, task_id, a, "MEDIUM", {}, 0))

\* a store that fills and executes, with a file system that may fail, and a
\* caller that also names workflows that are not there
NextMissing ==
    \/ \E a \in AgentTypes : register_agent(a)
    \/ CallerCreates
    \/ CallerAddsShort
    \/ CallerAddsToMissing
    \/ CallerExecutes
    \/ \E r \in 1..Len(runs) : batch_settled(r)
    \/ \E r \in 1..Len(runs), t \in TaskIds : task_begins(r, t)
    \/ \E r \in 1..Len(runs), t \in TaskIds : agent_returns(r, t)
SpecMissing == InitFaulty /\ [][NextMissing]_vars

\* this step is a call of add_task
AddsTask == call'.op = "add_task" /\ call' # call

\* C27: add_task on a workflow id that is not in the store raises the
\* ValueError of the missing workflow and changes neither the store nor the
\* state file.
C27_UnknownWorkflow ==
    [][(AddsTask /\ call'.args \notin DOMAIN workflows) =>
          /\ call'.raised = NoWorkflowMsg(call'.args)
          /\ workflows' = workflows
          /\ state_file' = state_file
          /\ runs' = runs]_vars

\* add_task has raised for a workflow that was never created while another
\* workflow is in the store and on file
C27_Witness ==
    /\ call.op = "add_task"
    /\ call.args = "w9"
    /\ call.raised = NoWorkflowMsg("w9")
    /\ "w9" \notin DOMAIN workflows
    /\ workflows # EmptyDict
    /\ state_file = state_data(workflows)

\* ------------------------------------------------- outcomes and retries
\* C28: no task of the store has both a result and an error.
C28_ResultXorError ==
    \A w \in DOMAIN workflows : \A t \in DOMAIN workflows[w].tasks :
        ~ (/\ workflows[w].tasks[t].result # NoneVal
           /\ workflows[w].tasks[t].error # NoneVal)

\* the caller adds the tasks of ShortTaskSeq, all with one retry budget
CallerAddsRetrying ==
    \E w \in WorkflowIds :
        /\ w \in DOMAIN workflows
        /\ ~ Executed(w)
        /\ Len(workflows[w].order) < Len(ShortTaskSeq)
        /\ LET task_id == ShortTaskSeq[Len(workflows[w].order) + 1]
           IN  \E deps \in DepChoices(task_id), a \in AgentTypes, m \in 0..MaxRetriesBound :
                   /\ \A o \in DOMAIN workflows[w].tasks : workflows[w].tasks[o].max_retries = m
                   /\ add_task(w, WorkflowTask(task_id, task_id, a, "MEDIUM", deps, m))

\* the caller executes a workflow again when no execution is in progress
CallerExecutesNext ==
    \E w \in WorkflowIds :
        /\ Idle
        /\ RunsOf(w) < MaxRuns
        /\ execute_workflow(w)

\* a workflow whose tasks have a retry budget, executed up to MaxRuns times,
\* one execution after the other
NextReexecute ==
    \/ \E a \in AgentTypes : register_agent(a)
    \/ CallerCreates
    \/ CallerAddsRetrying
    \/ CallerExecutesNext
    \/ \E r \in 1..Len(runs) : batch_settled(r)
    \/ \E r \in 1..Len(runs), t \in TaskIds : task_begins(r, t)
    \/ \E r \in 1..Len(runs), t \in TaskIds : retry_begins(r, t)
    \/ \E r \in 1..Len(runs), t \in TaskIds : agent_returns(r, t)
    \/ \E r \in 1..Len(runs), t \in TaskIds : agent_raises(r, t)
SpecReexecute == Init /\ [][NextReexecute]_vars

\* C29: the retry_count of a task of the store never exceeds its max_retries,
\* whatever the number of executions of its workflow.
C29_RetryCountBounded ==
    \A w \in DOMAIN workflows : \A t \in DOMAIN workflows[w].tasks :
        workflows[w].tasks[t].retry_count <= workflows[w].tasks[t].max_retries

\* a task that had used up its retries in the first execution has failed
\* again in the second
C29_Witness ==
    /\ Len(runs) >= 2
    /\ \E t \in DOMAIN workflows[runs[2].wf].tasks :
           LET task == workflows[runs[2].wf].tasks[t]
           IN  /\ task.max_retries >= 1
               /\ task.retry_count = task.max_retries
               /\ runs[1].co[t] = "done"
               /\ runs[2].co[t] = "done"
               /\ runs[2].attempts[t] # <<>>
               /\ task.status = "FAILED"

\* C30: the tasks of a batch are PENDING, or FAILED with a retry left, when
\* the scheduler dispatches them.
C30_OnlyPendingDispatched ==
    \A r \in RunIds :
        JustDispatched(r) =>
            \A t \in Range(runs[r].batch) :
                LET task == workflows[runs[r].wf].tasks[t]
                IN  \/ task.status = "PENDING"
                    \/ task.status = "FAILED" /\ task.retry_count < task.max_retries

\* ------------------------------------------------------ status transitions
\* the coroutine of some execution sleeps before a retry of task t of
\* workflow w
RetryPending(w, t) ==
    \E r \in RunIds : runs[r].wf = w /\ runs[r].co[t] = "sleeping"

\* C31: the status of a task never changes once it is COMPLETED, never goes
\* back to PENDING, and leaves FAILED only in the retry of the task.
C31_StatusMonotonic ==
    [][\A w \in DOMAIN workflows \cap DOMAIN workflows' :
          \A t \in DOMAIN workflows[w].tasks \cap DOMAIN workflows'[w].tasks :
              LET old == workflows[w].tasks[t].status
                  new == workflows'[w].tasks[t].status
              IN  old # new =>
                      /\ old # "COMPLETED"
                      /\ new # "PENDING"
                      /\ old = "FAILED" => RetryPending(w, t)]_vars

\* ------------------------------------------------------- the batch barrier
\* C32: the coroutines of an execution that have not ended belong to its
\* current batch, and the execution goes to its next pass only when every
\* task of the batch is COMPLETED or FAILED with its coroutine ended, retries
\* included.
C32_BatchBarrier ==
    /\ [](\A r \in RunIds : \A t \in TasksOf(r) :
             runs[r].co[t] \in {"ready", "await_agent", "sleeping"} =>
                 /\ runs[r].pc = "gather"
                 /\ t \in Range(runs[r].batch))
    /\ [][\A r \in RunIds :
             (runs[r].pc = "gather" /\ runs'[r].passes # runs[r].passes) =>
                 \A t \in Range(runs[r].batch) :
                     /\ runs[r].co[t] = "done"
                     /\ TaskOf(r, t).status \in {"COMPLETED", "FAILED"}]_vars

\* a task of the second batch is RUNNING after a task of the first batch
\* had been retried
C32_Witness ==
    \E r \in RunIds : \E t \in TasksOf(r) : \E u \in TasksOf(r) :
        /\ runs[r].pc = "gather"
        /\ runs[r].passes >= 2
        /\ t \in Range(runs[r].batch)
        /\ TaskOf(r, t).status = "RUNNING"
        /\ u \notin Range(runs[r].batch)
        /\ Len(runs[r].attempts[u]) >= 2

\* -------------------------------------------------------------- snapshots
\* the step is a call of create_workflow or of add_task that found its
\* workflow
MutatesStore ==
    /\ call' # call
    /\ call'.op \in {"create_workflow", "add_task"}
    /\ call'.raised = NoneVal

\* the coroutine of a task ends in the step: the task has settled
SettlesTask ==
    \E r \in RunIds : \E t \in TaskIds :
        runs[r].co[t] # "done" /\ runs'[r].co[t] = "done"

\* an execution returns in the step
ExecutionReturns ==
    \E r \in 1..Len(runs') :
        /\ runs'[r].pc = "returned"
        /\ r \in RunIds => runs[r].pc # "returned"

\* C33: with a file system that works, the state file is the snapshot of the
\* store after every create_workflow and add_task, after every settlement of
\* a task and after the return of an execution; when no execution is in
\* progress the file holds the statuses of every workflow and task.
C33_SnapshotFollows ==
    /\ [][(MutatesStore \/ SettlesTask \/ ExecutionReturns) =>
              state_file' = state_data(workflows')]_vars
    /\ []((Idle /\ workflows # EmptyDict) => state_file = state_data(workflows))

\* an execution has returned with the workflow COMPLETED and one of its
\* tasks FAILED, and the file says so
C33_Witness ==
    /\ Idle
    /\ \E r \in RunIds :
           /\ runs[r].pc = "returned"
           /\ state_file.workflows[runs[r].wf].status = "completed"
           /\ \E t \in TasksOf(r) :
                  /\ TaskOf(r, t).status = "FAILED"
                  /\ state_file.workflows[runs[r].wf].tasks[t].status = "failed"
                  /\ state_file.workflows[runs[r].wf].tasks[t].end_time = TaskOf(r, t).end_time

\* C34: every step leaves the state file as it was or as the complete
\* snapshot of the store.
C34_AtomicReplace ==
    [][\/ state_file' = state_file
       \/ state_file' = state_data(workflows')]_vars

\* ------------------------------------------- workflows executed side by side
\* the caller adds A, then B on A, to either workflow
CallerAddsAny ==
    \E w \in CleanupIds :
        /\ w \in DOMAIN workflows
        /\ ~ Executed(w)
        /\ Len(workflows[w].order) < Len(ShortTaskSeq)
        /\ LET task_id == ShortTaskSeq[Len(workflows[w].order) + 1]
           IN  \E a \in AgentTypes :
                   add_task(w, WorkflowTask(task_id, task_id, a, "MEDIUM",
                                            IF task_id = "A" THEN {} ELSE {"A"}, 0))

\* the caller executes either workflow once, whether or not the other one
\* is being executed
CallerExecutesEither ==
    \E w \in CleanupIds :
        /\ w \in DOMAIN workflows
        /\ ~ Executed(w)
        /\ execute_workflow(w)

NextSideBySide ==
    \/ \E a \in AgentTypes : register_agent(a)
    \/ CallerCreatesAny
    \/ CallerAddsAny
    \/ CallerExecutesEither
    \/ \E r \in 1..Len(runs) : batch_settled(r)
    \/ \E r \in 1..Len(runs), t \in TaskIds : task_begins(r, t)
    \/ \E r \in 1..Len(runs), t \in TaskIds : agent_returns(r, t)
    \/ \E r \in 1..Len(runs), t \in TaskIds : agent_raises(r, t)
SpecSideBySide == Init /\ [][NextSideBySide]_vars

\* the final statuses of an execution alone, as its own agent calls decide
\* them: a task is PENDING if it was never attempted, COMPLETED if its last
\* attempt returned and FAILED otherwise, and the workflow is COMPLETED
\* unless the execution caught an exception
FinalAsAlone(r) ==
    /\ \A t \in TasksOf(r) :
           TaskOf(r, t).status =
               IF runs[r].attempts[t] = <<>> THEN "PENDING"
               ELSE IF Last(runs[r].attempts[t]) = "returned" THEN "COMPLETED"
               ELSE "FAILED"
    /\ WfOf(r).status = IF runs[r].caught = NoneVal THEN "COMPLETED" ELSE "FAILED"
    /\ runs[r].caught # NoneVal <=> \E t \in TasksOf(r) : runs[r].attempts[t] = <<>>

\* C35: a step of the execution of one workflow leaves every other workflow
\* as it is, and an execution that has returned has left its workflow and
\* its tasks in the statuses that its own agent calls decide.
C35_NoInterference ==
    /\ [][\A r \in 1..Len(runs') :
              (r \notin RunIds \/ runs'[r] # runs[r]) =>
                  \A y \in DOMAIN workflows \ {runs'[r].wf} :
                      /\ y \in DOMAIN workflows'
                      /\ workflows'[y] = workflows[y]]_vars
    /\ [](\A r \in RunIds : runs[r].pc = "returned" => FinalAsAlone(r))

\* two workflows with tasks have been executed at the same time, a task of
\* one running while a task of the other ran, and one has ended COMPLETED,
\* the other FAILED
C35_Witness ==
    /\ Len(runs) = 2
    /\ Idle
    /\ runs[1].wf # runs[2].wf
    /\ WfOf(1).status # WfOf(2).status
    /\ \E t \in TasksOf(1) : \E u \in TasksOf(2) :
           /\ TaskOf(1, t).start_time # NoTime
           /\ TaskOf(2, u).start_time # NoTime
           /\ TaskOf(1, t).start_time < TaskOf(2, u).end_time
           /\ TaskOf(2, u).start_time < TaskOf(1, t).end_time

\* ---------------------------------------------------------- manual override
\* the candidate c with the mark of the caller's choice on it; the signature
\* of resolve_conflicts has the list of candidates as its only argument, so
\* that a designation can reach it only inside a candidate
Designate(c) ==
    [k \in DOMAIN c \cup {"designated"} |-> IF k = "designated" THEN TRUE ELSE c[k]]

\* the lists of candidates of which the caller has designated one or none
ManualLists ==
    {[i \in 1..Len(conflicts) |-> IF i = d THEN Designate(conflicts[i]) ELSE conflicts[i]] :
        conflicts \in ConflictLists, d \in 0..MaxConflicts}

\* a coordinator configured with conflict_resolution = "manual_override"
InitManual == Construct("MANUAL_OVERRIDE", "ok")

CallerResolvesManual ==
    /\ call.op = "__init__"
    /\ \E conflicts \in ManualLists : resolve_conflicts(conflicts)

NextManual == CallerResolvesManual
SpecManual == InitManual /\ [][NextManual]_vars

\* the positions of the candidates that the caller has designated
Designated(conflicts) ==
    {i \in 1..Len(conflicts) : "designated" \in DOMAIN conflicts[i]}

\* C36: by manual override, resolve_conflicts on two candidates or more
\* returns the candidate that the caller has designated, and the first
\* candidate when none is designated.
C36_ManualOverride ==
    Resolved("MANUAL_OVERRIDE") =>
        call.returned = IF Designated(call.args) = {} THEN call.args[1]
                        ELSE FirstOf(call.args, Designated(call.args))

\* ------------------------------------------------------------- termination
\* a step of an execution: the event loop resumes a coroutine that can run,
\* and a call of an agent returns, raises or times out
ExecutionStep ==
    \/ \E r \in 1..Len(runs) : batch_settled(r)
    \/ \E r \in 1..Len(runs), t \in TaskIds : task_begins(r, t)
    \/ \E r \in 1..Len(runs), t \in TaskIds : retry_begins(r, t)
    \/ \E r \in 1..Len(runs), t \in TaskIds : agent_returns(r, t)
    \/ \E r \in 1..Len(runs), t \in TaskIds : agent_raises(r, t)
    \/ \E r \in 1..Len(runs), t \in TaskIds : agent_times_out(r, t)

\* one execution of a workflow whose tasks have a retry budget
NextTerminates ==
    \/ \E a \in AgentTypes : register_agent(a)
    \/ CallerCreates
    \/ CallerAddsRetrying
    \/ CallerExecutes
    \/ ExecutionStep
SpecTerminates == Init /\ [][NextTerminates]_vars /\ WF_vars(ExecutionStep)

\* C37: an execution makes no more passes than the workflow has tasks, every
\* pass after the first ends the execution with the workflow FAILED or finds
\* fewer remaining tasks than the pass before, and an execution that has
\* begun returns.
C37_Terminates ==
    /\ [](\A r \in RunIds : runs[r].passes <= Cardinality(TasksOf(r)))
    /\ [][\A r \in RunIds :
              runs'[r].passes # runs[r].passes =>
                  \/ /\ runs'[r].pc = "returned"
                     /\ workflows'[runs'[r].wf].status = "FAILED"
                  \/ Len(runs'[r].remaining) < Len(runs[r].remaining)]_vars
    /\ (Len(runs) >= 1) ~> (Len(runs) >= 1 /\ runs[1].pc = "returned")

\* an execution has returned after one pass for each of its two tasks, one
\* of which was retried
C37_Witness ==
    \E r \in RunIds :
        /\ runs[r].pc = "returned"
        /\ Cardinality(TasksOf(r)) = 2
        /\ runs[r].passes = 2
        /\ \E t \in TasksOf(r) : Len(runs[r].attempts[t]) >= 2

\* ------------------------------------------ the state an execution leaves
\* the tasks of the workflow of execution r that depend on task t
Dependents(r, t) ==
    {u \in TasksOf(r) : t \in TaskOf(r, u).dependencies}

\* no execution of the workflow of execution r has dispatched task t
NoExecutionDispatched(r, t) ==
    \A q \in RunIds : runs[q].wf = runs[r].wf => runs[q].attempts[t] = <<>>

\* what the claim promises of the workflow of an execution that returns
ReturnedWell(r) ==
    /\ \A t \in TasksOf(r) : TaskOf(r, t).status # "RUNNING"
    /\ WfOf(r).status = "COMPLETED" =>
           \A t \in TasksOf(r) :
               /\ TaskOf(r, t).status \in {"COMPLETED", "FAILED"}
               /\ TaskOf(r, t).status = "FAILED" => Dependents(r, t) = {}
    /\ WfOf(r).status = "FAILED" =>
           \A t \in TasksOf(r) :
               NoExecutionDispatched(r, t) => TaskOf(r, t).status = "PENDING"

\* C38: when an execution returns, no task of its workflow is RUNNING; if the
\* workflow is COMPLETED every task is COMPLETED or FAILED and no task
\* depends on a FAILED one; if it is FAILED every task the execution never
\* dispatched is PENDING.
C38_ReturnState ==
    [][\A r \in 1..Len(runs') :
          (/\ runs'[r].pc = "returned"
           /\ r \in RunIds => runs[r].pc # "returned") => ReturnedWell(r)']_vars

\* ----------------------------------------------- completed_at and cleanup
\* C39: completed_at is set to a time, the time of the step, only by a step
\* that leaves the workflow COMPLETED, and a new workflow has none; a workflow with a completed_at has
\* an execution that returned without an exception; and a call of
\* cleanup_completed_workflows keeps every FAILED workflow without a
\* completed_at, whatever max_age and the time.
C39_FailedNeverRemoved ==
    /\ [][\A w \in DOMAIN workflows' :
              LET old == IF w \in DOMAIN workflows THEN workflows[w].completed_at ELSE NoTime
              IN  (workflows'[w].completed_at # old /\ workflows'[w].completed_at # NoTime) =>
                      /\ workflows'[w].status = "COMPLETED"
                      /\ workflows'[w].completed_at = now]_vars
    /\ [](\A w \in DOMAIN workflows :
              workflows[w].completed_at # NoTime =>
                  \E r \in RunIds : /\ runs[r].wf = w
                                    /\ runs[r].pc = "returned"
                                    /\ runs[r].caught = NoneVal)
    /\ [][CleansUp =>
              \A w \in DOMAIN workflows :
                  (workflows[w].status = "FAILED" /\ workflows[w].completed_at = NoTime) =>
                      /\ w \in DOMAIN workflows'
                      /\ workflows'[w] = workflows[w]]_vars

\* a cleanup with max_age zero has removed a workflow and kept a FAILED one
\* that was created before the removed one completed and has no completed_at
C39_Witness ==
    /\ call.op = "cleanup_completed_workflows"
    /\ call.args = 0
    /\ call.returned >= 1
    /\ Idle
    /\ \E w \in DOMAIN workflows :
           /\ workflows[w].status = "FAILED"
           /\ workflows[w].completed_at = NoTime
           /\ workflows[w].created_at < now
           /\ \E r \in RunIds : runs[r].wf = w /\ runs[r].pc = "returned"

====
